---- MODULE Spec2Model ----
(***************************************************************************)
(* Wechaty (src/wechaty.ts): the session controller that owns one puppet   *)
(* (driver), a StateSwitch<'standby','ready'> and the relay of the         *)
(* puppet's events.                                                        *)
(*                                                                         *)
(* JavaScript runs every handler to its first `await` without interleaving,*)
(* so each async method is one action for its synchronous prefix and one   *)
(* action for the continuation that runs when the awaited puppet promise   *)
(* settles.  The puppet's promises settle either way (resolve / reject):   *)
(* that is the environment's choice.                                       *)
(***************************************************************************)
EXTENDS Integers, Sequences, FiniteSets, TLC

\* ---------------------------------------------------------------- bounds
MaxDrivers      == 3  \* puppets constructed in one run of Spec
MaxRelayDrivers == 2  \* puppets constructed in one run of SpecRelay
MaxEmit         == 2  \* puppet events emitted in one run of SpecRelay

\* ------------------------------------------------------------- constants
Null == 0            \* this.puppet = null (or not yet assigned)

Drivers == 1..MaxDrivers

\* mutant: the relay forgets the last name of the list
eventList_withoutScan ==
  << "error", "friend", "heartbeat", "login", "logout",
     "message", "room-join", "room-leave", "room-topic" >>

\* eventList of initPuppet(): the names a relay listener is installed for
eventList ==
  << "error", "friend", "heartbeat", "login", "logout",
     "message", "room-join", "room-leave", "room-topic", "scan" >>

\* type WechatyEventName
EventNames ==
  { "error", "friend", "heartbeat", "login", "logout", "message",
    "room-join", "room-leave", "room-topic", "scan", "EVENT_PARAM_ERROR" }

RelayedNames == { eventList[i] : i \in 1..Len(eventList) }

\* the names of WechatyEventName that are not in eventList
OtherNames == EventNames \ RelayedNames

\* argument lists the puppet emits with (...args)
ArgLists == { <<2, 1>> }

\* the names the puppets emit with in the runs explored: the first and the last
\* name of eventList and a name outside it
EmitNames == { eventList[1], eventList[Len(eventList)] } \cup OtherNames

\* PuppetSetting after the constructor filled in the defaults of config:
\* head may still be empty, puppet may name an unsupported kind
Settings ==
  { [head |-> h, puppet |-> p] : h \in {"", "phantomjs"}, p \in {"web", "mock"} }

\* the `setting` argument of instance(): absent, or a PuppetSetting whose
\* optional fields may be missing ("")
InstanceArgs ==
  { [given |-> FALSE, head |-> "", puppet |-> ""] } \cup
  { [given |-> TRUE, head |-> h, puppet |-> p] :
      h \in {"", "phantomjs"}, p \in {"", "web", "mock"} }

\* this.setting of a handle that does not exist yet
NoSetting == [head |-> "", puppet |-> ""]

VARIABLES
  instance,       \* Wechaty._instance: Null or the handle
  handles,        \* number of `new Wechaty(...)` evaluated so far
  setting,        \* this.setting
  current,        \* state.current()
  target,         \* state.target()
  stable,         \* ~state.inprocess()
  puppet,         \* this.puppet: Null or the bound driver
  pInit,          \* per driver: the promise of puppet.init()
  pQuit,          \* per driver: the promise of puppet.quit()
  listeners,      \* per driver, per event name: relay listeners installed by puppet.on
  emitted,        \* events emitted by the Wechaty instance (this.emit), in order
  puppetEmitted,  \* events emitted by the puppets, in order
  last,           \* the last controller step and what its caller observed
  sinceQuit,      \* drivers constructed since the last quit() step
  cycle           \* progress of an init() -> quit() cycle made of consecutive lifecycle calls

vars == << instance, handles, setting, current, target, stable, puppet, pInit, pQuit, listeners,
           emitted, puppetEmitted, last, sinceQuit, cycle >>

stateVars == << current, target, stable >>
relayVars == << emitted, puppetEmitted >>

\* number of puppets constructed so far (new PuppetWeb)
nDrivers == Cardinality({ d \in Drivers : pInit[d] # "none" })

NoListeners == [ e \in EventNames |-> 0 ]

\* what the caller of a controller method (or of its continuation) observed
Outcome(op, result, reported, calls, d) ==
  [ op |-> op, result |-> result, reported |-> reported, calls |-> calls, d |-> d ]

Init ==
  /\ instance = Null
  /\ handles = 0
  /\ setting = NoSetting
  /\ current = "standby"
  /\ target = "standby"
  /\ stable = TRUE
  /\ puppet = Null
  /\ pInit = [ d \in Drivers |-> "none" ]
  /\ pQuit = [ d \in Drivers |-> "none" ]
  /\ listeners = [ d \in Drivers |-> NoListeners ]
  /\ emitted = << >>
  /\ puppetEmitted = << >>
  /\ last = Outcome("new", "ok", FALSE, 0, Null)
  /\ sinceQuit = 0
  /\ cycle = "idle"

\* the variables of the singleton
single == << instance, handles, setting >>

\* everything a handle owns besides its setting
session == << current, target, stable, puppet, pInit, pQuit, listeners,
             emitted, puppetEmitted, sinceQuit, cycle >>

\* -------------------------------------------------------------- instance()
\* mutant: a configuration passed to an existing instance is silently ignored
instanceRejects_never(arg) == FALSE

\* instance(): `if (setting && this._instance)` -> throw
instanceRejects(arg) == arg.given /\ instance # Null

\* constructor: setting.head = setting.head || config.head, and the same for
\* puppet, with cfg the values of config
constructorSetting(arg, cfg) ==
  [ head   |-> IF arg.head # "" THEN arg.head ELSE cfg.head,
    puppet |-> IF arg.puppet # "" THEN arg.puppet ELSE cfg.puppet ]

\* static instance(setting?)
instanceCall(arg, cfg) ==
  LET op == IF arg.given THEN "instance(setting)" ELSE "instance()" IN
  /\ IF instanceRejects(arg)
     THEN /\ last' = Outcome(op, "already", FALSE, 0, Null)
          /\ UNCHANGED single
     ELSE IF instance = Null
     THEN /\ handles' = handles + 1
          /\ instance' = handles + 1
          /\ setting' = constructorSetting(arg, cfg)
          /\ last' = Outcome(op, "ok", FALSE, 0, handles + 1)
     ELSE /\ last' = Outcome(op, "ok", FALSE, 0, instance)
          /\ UNCHANGED single
  /\ UNCHANGED session

\* the values of `config` the call can read: only `new Wechaty(setting)` reads it
configRead == IF instance = Null THEN Settings ELSE { NoSetting }

Wechaty_instance == \E arg \in InstanceArgs, cfg \in configRead : instanceCall(arg, cfg)

\* the first instance() call of the process, the one that constructs the handle
Wechaty_instance_first == instance = Null /\ Wechaty_instance

\* ------------------------------------------------------------ StateSwitch
\* StateSwitch (package state-switch) holds target, current and a stable flag:
\* target(s) stores s; current(s, stable = true) stores s and the flag;
\* inprocess() is the negation of the flag.  The calls are inlined in the
\* actions below as the assignments to target, current and stable.
\* state.inprocess()
inprocess == ~stable

\* ------------------------------------------------------------------ init()
\* mutant: init() returns early only on a settled ready state
AlreadyInited_settledOnly == current = "ready" /\ stable

\* init(): `if (this.state.current() === 'ready')` -> log and return
AlreadyInited == current = "ready"

\* init(): state.current('ready', false): the flag passed as `stable`
InitOptimisticStable == FALSE

\* mutant: the switch on setting.puppet has no throwing default
initPuppetStep_noDefault(s) ==
  IF s.head = "" THEN "no head" ELSE "construct"

\* initPuppet(): what the synchronous part does for a setting:
\* throw 'no head', throw 'Puppet unsupport(yet?)', or construct a PuppetWeb
initPuppetStep(s) ==
  IF s.head = "" THEN "no head"
  ELSE IF s.puppet = "web" THEN "construct"
  ELSE "unsupport"

\* mutant: the listeners are not installed
installRelay_none(ls) == ls

\* initPuppet(): eventList.map(e => puppet.on(e, ...)) on a fresh puppet
installRelay(ls) ==
  [ e \in EventNames |-> IF e \in RelayedNames THEN ls[e] + 1 ELSE ls[e] ]

\* init() up to `await this.initPuppet()` suspending on puppet.init();
\* cap bounds the number of puppets a run constructs
init(cap) ==
  /\ instance # Null
  /\ IF AlreadyInited
     THEN /\ last' = Outcome("init", "ok", FALSE, 0, Null)
          /\ cycle' = "idle"
          /\ UNCHANGED << single, stateVars, puppet, pInit, pQuit, listeners,
                          relayVars, sinceQuit >>
     ELSE /\ target' = "ready"
          /\ current' = "ready"
          /\ stable' = InitOptimisticStable
          /\ IF initPuppetStep(setting) = "construct"
             THEN /\ nDrivers < cap
                  /\ LET d == nDrivers + 1 IN
                       /\ listeners' = [ listeners EXCEPT ![d] = installRelay(@) ]
                       /\ puppet' = d
                       /\ pInit' = [ pInit EXCEPT ![d] = "pending" ]
                       /\ last' = Outcome("init", "pending", FALSE, 1, d)
                  /\ sinceQuit' = sinceQuit + 1
                  /\ cycle' = "initCalled"
             ELSE \* initPuppet() rejected: catch, log, Raven.captureException, throw
                  /\ last' = Outcome("init", initPuppetStep(setting), TRUE, 0, Null)
                  /\ cycle' = "idle"
                  /\ UNCHANGED << puppet, pInit, listeners, sinceQuit >>
          /\ UNCHANGED << single, pQuit, relayVars >>

Wechaty_init == init(MaxDrivers)

Wechaty_init_relay == init(MaxRelayDrivers)

\* init() resumed after puppet.init() of driver d settled
initSettled(d, ok) ==
  /\ pInit[d] = "pending"
  /\ IF ok
     THEN /\ pInit' = [ pInit EXCEPT ![d] = "ok" ]
          /\ current' = "ready"
          /\ stable' = TRUE
          /\ last' = Outcome("init", "ok", FALSE, 0, d)
          /\ cycle' = IF cycle = "initCalled" /\ d = nDrivers THEN "inited" ELSE cycle
          /\ UNCHANGED target
     ELSE /\ pInit' = [ pInit EXCEPT ![d] = "failed" ]
          /\ last' = Outcome("init", "puppet error", TRUE, 0, d)
          /\ cycle' = IF cycle = "initCalled" /\ d = nDrivers THEN "idle" ELSE cycle
          /\ UNCHANGED stateVars
  /\ UNCHANGED << single, puppet, pQuit, listeners, relayVars, sinceQuit >>

Wechaty_init_settled == \E d \in Drivers, ok \in BOOLEAN : initSettled(d, ok)

\* ------------------------------------------------------------------ quit()
\* mutant: quit() only checks the in-process flag
QuitNotAllowed_inprocessOnly == inprocess

\* quit(): `if (this.state.current() !== 'ready' || this.state.inprocess())` -> throw
QuitNotAllowed == current # "ready" \/ inprocess

\* mutant: quit() keeps the reference
quitUnbind_keep(p) == p

\* quit(): `this.puppet = null` after the reference was captured in puppetBeforeDie
quitUnbind(p) == Null

\* quit(): `if (!this.puppet)` -> warn and return
quitWithoutPuppet == puppet = Null

\* quit() up to `await puppetBeforeDie.quit()`
Wechaty_quit ==
  /\ instance # Null
  /\ IF QuitNotAllowed
     THEN /\ last' = Outcome("quit", "not inited", FALSE, 0, Null)
          /\ cycle' = "idle"
          /\ UNCHANGED << single, stateVars, puppet, pInit, pQuit, listeners,
                          relayVars, sinceQuit >>
     ELSE /\ target' = "standby"
          /\ current' = "standby"
          /\ stable' = FALSE
          /\ sinceQuit' = 0
          /\ IF quitWithoutPuppet
             THEN \* log.warn('quit() without this.puppet'); return
                  /\ last' = Outcome("quit", "ok", FALSE, 0, Null)
                  /\ cycle' = "idle"
                  /\ UNCHANGED << puppet, pQuit >>
             ELSE /\ pQuit' = [ pQuit EXCEPT ![puppet] = "pending" ]
                  /\ puppet' = quitUnbind(puppet)
                  /\ last' = Outcome("quit", "pending", FALSE, 1, puppet)
                  /\ cycle' = IF cycle = "inited" THEN "quitCalled" ELSE "idle"
          /\ UNCHANGED << single, pInit, listeners, relayVars >>

\* mutant: the rejection handler rolls the state back to a settled ready
quitSettle_rollback(ok, cur, stb) ==
  IF ok THEN << "standby", TRUE >> ELSE << "ready", TRUE >>

\* quit(): what the continuation does to (current, stable) once puppet.quit()
\* of the captured driver settled: state.current('standby') on success, and
\* nothing after the .catch handler re-threw
quitSettle(ok, cur, stb) ==
  IF ok THEN << "standby", TRUE >> ELSE << cur, stb >>

\* quit() resumed after puppetBeforeDie.quit() of driver d settled
quitSettled(d, ok) ==
  /\ pQuit[d] = "pending"
  /\ pQuit' = [ pQuit EXCEPT ![d] = IF ok THEN "ok" ELSE "failed" ]
  /\ current' = quitSettle(ok, current, stable)[1]
  /\ stable' = quitSettle(ok, current, stable)[2]
  /\ last' = IF ok THEN Outcome("quit", "ok", FALSE, 0, d)
                   ELSE Outcome("quit", "puppet error", TRUE, 0, d)
  /\ cycle' = IF cycle = "quitCalled" /\ d = nDrivers
              THEN (IF ok THEN "cycled" ELSE "idle")
              ELSE cycle
  /\ sinceQuit' = 0
  /\ UNCHANGED << single, target, puppet, pInit, listeners, relayVars >>

Wechaty_quit_settled == \E d \in Drivers, ok \in BOOLEAN : quitSettled(d, ok)

\* ------------------------------------------------------------- delegation
\* `if (!this.puppet)` of reset/logout/send/say/ding
NoPuppet == puppet = Null

\* whether the method's rejection handler calls Raven.captureException:
\* send(), ding() and logout() chain .catch(e => {...Raven...; throw e});
\* reset() and say() only await the puppet's promise
ReportsFailure(op) == op \in { "send", "ding", "logout" }

\* a delegating method: its guard, the one puppet call, and what the caller
\* gets when that call resolves (ok) or rejects.  The controller changes no
\* state of its own on either side of the await.
delegate(op, ok) ==
  /\ instance # Null
  /\ last' = IF NoPuppet THEN Outcome(op, "no puppet", FALSE, 0, Null)
             ELSE IF ok THEN Outcome(op, "ok", FALSE, 1, puppet)
             ELSE Outcome(op, "puppet error", ReportsFailure(op), 1, puppet)
  /\ UNCHANGED << single, stateVars, puppet, pInit, pQuit, listeners,
                  relayVars, sinceQuit, cycle >>

Wechaty_reset  == \E ok \in BOOLEAN : delegate("reset", ok)
Wechaty_logout == \E ok \in BOOLEAN : delegate("logout", ok)
Wechaty_send   == \E ok \in BOOLEAN : delegate("send", ok)
Wechaty_say    == \E ok \in BOOLEAN : delegate("say", ok)
Wechaty_ding   == \E ok \in BOOLEAN : delegate("ding", ok)

\* ------------------------------------------------------------ event relay
\* the relay listener: this.emit.apply(this, [e, ...args])
relay(e, args) == << e >> \o args

\* n copies of x
RECURSIVE Copies(_, _)
Copies(n, x) == IF n = 0 THEN << >> ELSE << x >> \o Copies(n - 1, x)

\* a puppet that was constructed and whose quit() has not resolved emits e
\* with args: every listener installed on it for e runs in the same turn
puppetEmit(d, e, args) ==
  /\ pInit[d] # "none"
  /\ pQuit[d] # "ok"
  /\ Len(puppetEmitted) < MaxEmit
  /\ puppetEmitted' = Append(puppetEmitted, [ from |-> d, name |-> e, args |-> args ])
  /\ emitted' = emitted \o Copies(listeners[d][e], [ from |-> d, ev |-> relay(e, args) ])
  /\ UNCHANGED << single, stateVars, puppet, pInit, pQuit, listeners,
                  last, sinceQuit, cycle >>

Puppet_emit == \E d \in Drivers, e \in EmitNames, args \in ArgLists : puppetEmit(d, e, args)

Next ==
  \/ Wechaty_instance
  \/ Wechaty_init
  \/ Wechaty_init_settled
  \/ Wechaty_quit
  \/ Wechaty_quit_settled
  \/ Wechaty_reset
  \/ Wechaty_logout
  \/ Wechaty_send
  \/ Wechaty_say
  \/ Wechaty_ding

Spec == Init /\ [][Next]_vars

\* the lifecycle together with the puppets' event emissions
NextRelay ==
  \/ Wechaty_instance_first
  \/ Wechaty_init_relay
  \/ Wechaty_init_settled
  \/ Wechaty_quit
  \/ Wechaty_quit_settled
  \/ Puppet_emit

SpecRelay == Init /\ [][NextRelay]_vars

\* ================================================================= claims
InitErrors == { "no head", "unsupport", "puppet error" }

\* the controller-side state a lifecycle call may touch
ctl == << current, target, stable, puppet, pInit, pQuit, listeners >>

C2_QuitAcceptedAfterFailedInit ==
  [][ (last.op = "init" /\ last.result \in InitErrors /\ Wechaty_quit)
        => last'.result # "not inited" ]_vars

\* ---------------------------------------------------------------------
\* C3: quit() called while current = standby fails with the lifecycle-state
\* error, bound driver or not, calls no puppet.quit() and changes neither
\* current, target, the in-process flag nor the bound driver.
C3_QuitOnStandbyFails ==
  [][ (Wechaty_quit /\ current = "standby") =>
        /\ last' = Outcome("quit", "not inited", FALSE, 0, Null)
        /\ UNCHANGED ctl ]_vars

\* the second quit() after a successful init() -> quit() was rejected
C3_Witness ==
  /\ last = Outcome("quit", "not inited", FALSE, 0, Null)
  /\ current = "standby"
  /\ stable
  /\ pInit[1] = "ok"
  /\ pQuit[1] = "ok"

\* ---------------------------------------------------------------------
\* C4 (as claimed): quit() proceeds only if current = ready and no transition
\* is in progress, and a quit() issued while an init() is still suspended on
\* puppet.init() fails with the lifecycle-state error, calls no puppet.quit()
\* and leaves the state and the bound driver unchanged.
C4_QuitOnlyWhenSettledReady ==
  [][ ( /\ Wechaty_quit
        /\ \/ current # "ready"
           \/ ~stable
           \/ \E d \in Drivers : pInit[d] = "pending" ) =>
        /\ last' = Outcome("quit", "not inited", FALSE, 0, Null)
        /\ UNCHANGED ctl ]_vars

\* ---------------------------------------------------------------------
\* C5: after an init() that succeeded followed by a quit() that succeeded,
\* with no other init() or quit() call in between, no driver is bound, and a
\* send() then fails with 'no puppet' without calling any puppet.
C5_SendAfterCycleFails ==
  [][ /\ cycle' = "cycled" => puppet' = Null
      /\ (cycle = "cycled" /\ Wechaty_send) =>
           last' = Outcome("send", "no puppet", FALSE, 0, Null) ]_vars

\* send() failed with 'no puppet' right after an init() -> quit() cycle
C5_Witness ==
  /\ cycle = "cycled"
  /\ last = Outcome("send", "no puppet", FALSE, 0, Null)

\* ---------------------------------------------------------------------
\* C6: the ten names of the fixed set each have exactly one relay listener on
\* every constructed driver; an emission (name, args) of one of them by the
\* bound driver appends exactly one (name, args) to the controller's
\* emissions; and for every driver the controller's emissions that stem from
\* it are its emissions under those names, in the same order.
C6_Names ==
  { "error", "friend", "heartbeat", "login", "logout",
    "message", "room-join", "room-leave", "room-topic", "scan" }

C6_FromDriver(d) ==
  LET ofD(x) == x.from = d /\ x.name \in C6_Names
      sent == SelectSeq(puppetEmitted, ofD)
  IN  [ i \in 1..Len(sent) |-> [ from |-> d, ev |-> << sent[i].name >> \o sent[i].args ] ]

C6_ToController(d) ==
  LET ofD(x) == x.from = d IN SelectSeq(emitted, ofD)

C6_RelayRoundTrip ==
  [][ /\ \A d \in Drivers :
           /\ pInit'[d] # "none" =>
                \A e \in EventNames : listeners'[d][e] = (IF e \in C6_Names THEN 1 ELSE 0)
           /\ C6_ToController(d)' = C6_FromDriver(d)'
      /\ Len(puppetEmitted') = Len(puppetEmitted) + 1 =>
           LET x == puppetEmitted'[Len(puppetEmitted')] IN
             (x.from = puppet /\ x.name \in C6_Names) =>
               emitted' = Append(emitted, [ from |-> x.from, ev |-> << x.name >> \o x.args ]) ]_vars

\* the bound driver emitted two events under different names of the fixed set
\* and the controller emitted both, in that order
C6_Witness ==
  /\ Len(emitted) = 2
  /\ Len(puppetEmitted) = 2
  /\ puppet # Null
  /\ emitted[1].from = puppet
  /\ emitted[2].from = puppet
  /\ emitted[1].ev = << "scan", 2, 1 >>
  /\ emitted[2].ev = << "error", 2, 1 >>

\* ---------------------------------------------------------------------
\* C7 (as claimed): once quit() has unbound a driver and a later init() has
\* bound a new one, an event emitted by the old driver produces no
\* controller-level emission.
C7_NoStaleRelay ==
  [][ ( /\ Len(puppetEmitted') = Len(puppetEmitted) + 1
        /\ LET x == puppetEmitted'[Len(puppetEmitted')] IN
             /\ pQuit[x.from] # "none"
             /\ puppet # Null
             /\ puppet # x.from )
      => emitted' = emitted ]_vars

\* ---------------------------------------------------------------------
\* C8 (as claimed): whenever the puppet's call made by init(), quit(), send(),
\* ding(), reset() or logout() fails, the caller gets the error, the error was
\* reported to Raven, and the puppet call was made once.
C8_FailuresReportedAndRethrown ==
  ( /\ last.op \in { "init", "quit", "send", "ding", "reset", "logout" }
    /\ last.result = "puppet error" )
  => (last.reported /\ last.calls <= 1)

\* ---------------------------------------------------------------------
\* C9: an init() that fails because the driver kind is unsupported or the
\* head is missing throws to the caller, constructs and binds no driver,
\* installs no listener, and does not roll the state back: afterwards
\* current = ready, target = ready and the transition is still in process.
C9_ConfigFailureNotRolledBack ==
  [][ ( /\ Wechaty_init
        /\ current # "ready"
        /\ (setting.head = "" \/ setting.puppet # "web") ) =>
        /\ last'.op = "init"
        /\ last'.result = (IF setting.head = "" THEN "no head" ELSE "unsupport")
        /\ last'.calls = 0
        /\ UNCHANGED << puppet, pInit, pQuit, listeners >>
        /\ puppet' = Null
        /\ current' = "ready"
        /\ target' = "ready"
        /\ ~stable' ]_vars

\* init() threw for an unsupported driver kind and the state stayed flipped
C9_Witness ==
  /\ last.op = "init"
  /\ last.result = "unsupport"
  /\ setting.puppet = "mock"
  /\ current = "ready"
  /\ ~stable

\* ---------------------------------------------------------------------
\* C10: when puppet.quit() fails, quit() reports the error and re-throws it
\* and rolls nothing back: its continuation changes neither the bound driver
\* nor the state and never re-binds the failed driver; when the failure
\* directly follows the quit() call, the reference is still cleared and
\* current is still standby.
C10_TeardownFailureNotRolledBack ==
  [][ \A d \in Drivers :
        (pQuit[d] = "pending" /\ pQuit'[d] = "failed") =>
          /\ last' = Outcome("quit", "puppet error", TRUE, 0, d)
          /\ UNCHANGED << current, target, stable, puppet >>
          /\ puppet' # d
          /\ last = Outcome("quit", "pending", FALSE, 1, d) =>
               (puppet' = Null /\ current' = "standby") ]_vars

\* quit() threw the teardown failure with the reference cleared and current standby
C10_Witness ==
  /\ last.op = "quit"
  /\ last.result = "puppet error"
  /\ pQuit[last.d] = "failed"
  /\ puppet = Null
  /\ current = "standby"

\* ---------------------------------------------------------------------
\* C11: the handle is a singleton: at most one Wechaty is ever constructed;
\* instance() without an argument constructs the handle on the first call
\* only and always returns it; instance(setting) while a handle exists fails
\* with the 'already a instance' error and leaves the handle and its setting
\* as they were.
C11_Singleton ==
  [][ /\ handles' <= 1
      /\ instance' \in { Null, 1 }
      /\ instance # Null => (instance' = instance /\ setting' = setting)
      /\ Wechaty_instance =>
           /\ (last'.op = "instance(setting)" /\ instance # Null) =>
                /\ last' = Outcome("instance(setting)", "already", FALSE, 0, Null)
                /\ UNCHANGED << instance, handles, setting >>
           /\ last'.op = "instance()" =>
                /\ last' = Outcome("instance()", "ok", FALSE, 0, 1)
                /\ instance' = 1
                /\ handles' = (IF instance = Null THEN handles + 1 ELSE handles) ]_vars

\* instance(setting) was rejected because the handle already exists
C11_Witness ==
  /\ last = Outcome("instance(setting)", "already", FALSE, 0, Null)
  /\ instance = 1
  /\ handles = 1

\* ---------------------------------------------------------------------
\* C12 (as claimed): quit() called on a settled ready session with no driver
\* bound returns successfully, calls no puppet.quit() and leaves current =
\* standby; and a quit() called after an init() that failed before it bound
\* a driver goes the same way.
C12_ReturnsWithoutTeardown ==
  /\ last' = Outcome("quit", "ok", FALSE, 0, Null)
  /\ pQuit' = pQuit
  /\ puppet' = Null
  /\ current' = "standby"

C12_QuitWithoutDriverTolerated ==
  [][ Wechaty_quit =>
        /\ (current = "ready" /\ stable /\ puppet = Null)
              => C12_ReturnsWithoutTeardown
        /\ (last.op = "init" /\ last.result \in InitErrors /\ puppet = Null)
              => C12_ReturnsWithoutTeardown ]_vars

\* an init() call that went on to construct a driver
Constructs == nDrivers' = nDrivers + 1

C14_CurrentFollowsTarget ==
  [][ /\ (current' # current \/ stable' # stable) => current' = target'
      /\ target' # target => (Wechaty_init \/ Wechaty_quit) ]_vars

\* ---------------------------------------------------------------------
\* C15: puppet.quit() is invoked at most once per driver: the driver quit()
\* captures has never been torn down before, and it is unbound in the same
\* step, before quit() suspends.
C15_NoDoubleTeardown ==
  [][ \A d \in Drivers :
        /\ (pQuit'[d] = "pending" /\ pQuit[d] # "pending") =>
             /\ pQuit[d] = "none"
             /\ puppet = d
             /\ puppet' = Null
             /\ last' = Outcome("quit", "pending", FALSE, 1, d)
        /\ pQuit[d] # "none" => (pQuit'[d] # "none" /\ puppet' # d)
        /\ (Wechaty_quit /\ puppet = d /\ last'.result = "pending") =>
             pQuit[d] = "none" ]_vars

\* a second quit() ran while the first one's teardown was still pending, on
\* another driver
C15_Witness ==
  \E d, e \in Drivers : d # e /\ pQuit[d] = "pending" /\ pQuit[e] = "pending"

\* ---------------------------------------------------------------------
\* C16: when init() suspends on puppet.init(), the new driver already has a
\* relay listener for each of the ten names and is the bound driver; every
\* event it emits under one of those names while init() is still suspended
\* is emitted by the controller, once.
C16_Names ==
  { "error", "friend", "heartbeat", "login", "logout",
    "message", "room-join", "room-leave", "room-topic", "scan" }

C16_NoStartupEventLost ==
  [][ /\ \A d \in Drivers :
           (pInit[d] = "none" /\ pInit'[d] = "pending") =>
              /\ puppet' = d
              /\ \A e \in C16_Names : listeners'[d][e] = 1
      /\ Len(puppetEmitted') = Len(puppetEmitted) + 1 =>
           LET x == puppetEmitted'[Len(puppetEmitted')] IN
             (pInit[x.from] = "pending" /\ x.name \in C16_Names) =>
                /\ Len(emitted') = Len(emitted) + 1
                /\ emitted'[Len(emitted')].ev = << x.name >> \o x.args ]_vars

\* the controller emitted an event of a driver whose puppet.init() is pending
C16_Witness ==
  /\ puppet # Null
  /\ pInit[puppet] = "pending"
  /\ Len(emitted) = 1
  /\ emitted[1].from = puppet
  /\ emitted[1].ev = << "scan", 2, 1 >>

\* ---------------------------------------------------------------------
\* C17 (as claimed): after an init() that succeeded followed by a quit() that
\* succeeded, the session is at current = standby, target = standby, settled,
\* with no driver bound; an init() called after that constructs a fresh
\* driver; and when that driver's start-up succeeds the session is settled
\* at ready with that driver bound.
C17_CycleRepeatable ==
  [][ /\ (cycle # "cycled" /\ cycle' = "cycled") =>
           (current' = "standby" /\ target' = "standby" /\ stable' /\ puppet' = Null)
      /\ (cycle = "cycled" /\ Wechaty_init) =>
           (Constructs /\ puppet' = nDrivers' /\ pInit'[nDrivers'] = "pending")
      /\ (cycle = "initCalled" /\ cycle' = "inited") =>
           (current' = "ready" /\ stable' /\ puppet' = nDrivers /\ pInit'[nDrivers] = "ok") ]_vars

\* ---------------------------------------------------------------------
\* C18 (as claimed): whenever current = ready and no transition is in
\* progress, a driver is bound.
C18_ReadyHasDriver ==
  (current = "ready" /\ stable) => puppet # Null

\* ---------------------------------------------------------------------
\* C19 (as claimed): whenever current = standby and no transition is in
\* progress, no driver is bound.
C19_StandbyHasNoDriver ==
  (current = "standby" /\ stable) => puppet = Null

\* ---------------------------------------------------------------------
\* C20 (as claimed): every driver that was constructed is the bound driver or
\* has had its quit() invoked, and a new driver is bound only when the driver
\* bound before it has had its quit() invoked.
C20_NoOrphanDriver ==
  [][ /\ \A d \in Drivers :
           pInit'[d] # "none" => (puppet' = d \/ pQuit'[d] # "none")
      /\ (puppet # Null /\ puppet' # Null /\ puppet' # puppet) =>
           pQuit[puppet] # "none" ]_vars

====
